---- MODULE Spec2Model ----
(***************************************************************************)
(* Model of the subscription-pricing simulator: the pricing models          *)
(* (models.py), the configuration defaults (config.py), the objective       *)
(* metrics (objectives.py), the month-by-month simulation engine            *)
(* (simulation.py) and the orchestration that reads its results (main.py).  *)
(*                                                                         *)
(* Python floats are modelled as fixed-point integers with four decimals:   *)
(* the integer n stands for the real n / Scale.  Counts (months, runs,      *)
(* seeds, spike events) are plain integers.                                 *)
(***************************************************************************)
EXTENDS Integers, Sequences, FiniteSets, TLC

\* ---------------------------------------------------------------- bounds
MaxMonths == 3
MaxRuns == 2
RngMod == 8

\* ------------------------------------------------- fixed-point arithmetic
Scale == 10^4

Max(a, b) == IF a >= b THEN a ELSE b
Min(a, b) == IF a <= b THEN a ELSE b
Abs(a) == IF a >= 0 THEN a ELSE 0 - a
Clip(x, lo, hi) == Max(lo, Min(x, hi))

\* Bind(v, Op): Op applied to the value of v, v evaluated once
Bind(v, Op(_)) == CHOOSE res \in {Op(x) : x \in {v}} : TRUE

\* a * b of two fixed-point numbers (floor), split so that no partial
\* product leaves the 32-bit range
MulFix(a, b) ==
    LET qa == a \div Scale
        ra == a % Scale
        qb == b \div Scale
        rb == b % Scale
    IN  qa * qb * Scale + qa * rb + ra * qb + (ra * rb) \div Scale

RECURSIVE FracDigits(_, _, _)
FracDigits(r, b, n) ==
    IF n = 0 THEN 0
    ELSE Bind(r * 10, LAMBDA r10 :
             (r10 \div b) * 10^(n - 1) + FracDigits(r10 % b, b, n - 1))

\* a / b of two fixed-point numbers, b > 0 (floor), by long division
RECURSIVE DivFix(_, _)
DivFix(a, b) ==
    IF b >= 10^8 THEN DivFix(a \div 10, b \div 10)
    ELSE (a \div b) * Scale + FracDigits(a % b, b, 4)

\* sum of a sequence
RECURSIVE SumTo(_, _)
SumTo(s, k) == IF k = 0 THEN 0 ELSE s[k] + SumTo(s, k - 1)

SeqSum(seq) == Bind(seq, LAMBDA s : SumTo(s, Len(s)))

Range(s) == {s[i] : i \in DOMAIN s}

\* np.exp(-0.04 * month): exp(-0.04) = 0.9608 multiplied month times
ExpStep == 9608
RECURSIVE ExpDecay(_)
ExpDecay(month) ==
    IF month <= 0 THEN Scale ELSE MulFix(ExpDecay(month - 1), ExpStep)

\* np.log10(x) for x >= 1: the integer part by repeated division by ten, the
\* fraction bit by bit by repeated squaring of the mantissa
RECURSIVE LogInt(_)
LogInt(x) == IF x >= 10 * Scale THEN Scale + LogInt(x \div 10) ELSE 0

RECURSIVE LogMant(_)
LogMant(x) == IF x >= 10 * Scale THEN LogMant(x \div 10) ELSE x

RECURSIVE LogFrac(_, _, _)
LogFrac(y, bit, n) ==
    IF n = 0 THEN 0
    ELSE Bind(MulFix(y, y), LAMBDA y2 :
             IF y2 >= 10 * Scale
             THEN bit + LogFrac(y2 \div 10, bit \div 2, n - 1)
             ELSE LogFrac(y2, bit \div 2, n - 1))

Log10(x) == LogInt(x) + LogFrac(LogMant(x), Scale \div 2, 12)

\* integer square root (floor) by bisection
RECURSIVE SqrtBisect(_, _, _)
SqrtBisect(n, lo, hi) ==
    IF lo >= hi THEN lo
    ELSE Bind((lo + hi + 1) \div 2, LAMBDA mid :
             IF mid * mid <= n THEN SqrtBisect(n, mid, hi)
             ELSE SqrtBisect(n, lo, mid - 1))

Isqrt(n) ==
    Bind(n, LAMBDA v : IF v <= 0 THEN 0 ELSE SqrtBisect(v, 0, Min(v, 46340)))

\* ------------------------------------------------------------ config.py
\* Config._apply_defaults: the defaults table
Defaults ==
    [months |-> 24, initial_users |-> 1000 * Scale, growth_rate |-> 800,
     churn_rate |-> 300, monthly_price |-> 10 * Scale, cost_ratio |-> 6000,
     yearly_discount |-> 8500, avg_usage |-> 20 * Scale,
     price_per_unit |-> 5000]

\* Config.__init__ followed by _apply_defaults: setdefault for every key
ApplyDefaults(params) ==
    [k \in (DOMAIN params) \cup (DOMAIN Defaults) |->
        IF k \in DOMAIN params THEN params[k] ELSE Defaults[k]]

\* dict.get(key, default)
GetOr(params, key, default) ==
    IF key \in DOMAIN params THEN params[key] ELSE default

\* ------------------------------------------------------------- errors
NoError == [kind |-> "none", args |-> <<>>]
\* params[key] on an absent key: Python's KeyError carries the key only
KeyError(key) == [kind |-> "KeyError", args |-> <<key>>]

\* ------------------------------------------- the process-wide generator
\* np.random.seed(seed): the state is a function of the seed alone
SeedState(seed) == (3 * seed + 1) % RngMod
\* one draw advances the generator
RngNext(r) == (5 * r + 3) % RngMod
\* np.random.poisson(lam=1): a spike count
PoissonDraw(r) == r % 3
\* np.random.uniform(5, 15)
UniformDraw(r) == (5 + 5 * (r % 3)) * Scale
\* np.random.normal(1, 0.1)
NormalDraw(r) == Scale + ((r % 3) - 1) * 1000
\* np.random.lognormal(mean=2.5, sigma=0.6): one user's usage
LognormalDraw(r) == (6 + 6 * (r % 3)) * Scale

\* ------------------------------------------------------------ models.py
Models == {"FlatMonthly", "YearlySubscription", "PremiumMonthly",
           "PremiumYearlySubscription", "UsageBased"}

Ok(v, r) == [err |-> NoError, value |-> v, rng |-> r]
Fail(e, r) == [err |-> e, value |-> 0, rng |-> r]

\* FlatMonthly
FlatMonthlyRevenue(users, params, r) ==
    IF "monthly_price" \notin DOMAIN params
    THEN Fail(KeyError("monthly_price"), r)
    ELSE Ok(MulFix(users, params["monthly_price"]), r)

FlatMonthlyPrice(params) ==
    IF "monthly_price" \notin DOMAIN params
    THEN Fail(KeyError("monthly_price"), 0)
    ELSE Ok(params["monthly_price"], 0)

\* YearlySubscription
YearlyRevenue(users, params, r) ==
    IF "monthly_price" \notin DOMAIN params
    THEN Fail(KeyError("monthly_price"), r)
    ELSE LET monthly_price == params["monthly_price"]
             discount == GetOr(params, "yearly_discount", 8500)
         IN  Ok(MulFix(users, MulFix(monthly_price * 12, discount)) \div 12, r)

YearlyPrice(params) ==
    IF "monthly_price" \notin DOMAIN params
    THEN Fail(KeyError("monthly_price"), 0)
    ELSE Ok(MulFix(params["monthly_price"],
                   GetOr(params, "yearly_discount", 8500)), 0)

\* PremiumMonthly
PremiumMonthlyRevenue(users, params, r) ==
    IF "premium_monthly_price" \notin DOMAIN params
    THEN Fail(KeyError("premium_monthly_price"), r)
    ELSE Ok(MulFix(users, params["premium_monthly_price"]), r)

\* a price read with a default instead of a required key
PremiumMonthlyPriceDefaulted(params) ==
    Ok(GetOr(params, "premium_monthly_price", 10 * Scale), 0)

PremiumMonthlyPrice(params) ==
    IF "premium_monthly_price" \notin DOMAIN params
    THEN Fail(KeyError("premium_monthly_price"), 0)
    ELSE Ok(params["premium_monthly_price"], 0)

\* PremiumYearlySubscription
PremiumYearlyRevenue(users, params, r) ==
    IF "premium_monthly_price" \notin DOMAIN params
    THEN Fail(KeyError("premium_monthly_price"), r)
    ELSE LET monthly_price == params["premium_monthly_price"]
             discount == GetOr(params, "premium_yearly_discount", 7000)
         IN  Ok(MulFix(users, MulFix(monthly_price * 12, discount)) \div 12, r)

PremiumYearlyPrice(params) ==
    IF "premium_monthly_price" \notin DOMAIN params
    THEN Fail(KeyError("premium_monthly_price"), 0)
    ELSE Ok(MulFix(params["premium_monthly_price"],
                   GetOr(params, "premium_yearly_discount", 7000)), 0)

\* UsageBased: three draws from the process-wide generator per call
UsageBasedRevenue(users, params, r) ==
    LET base_usage == GetOr(params, "avg_usage", 20 * Scale)
        price_per_unit == GetOr(params, "price_per_unit", 5000)
        spike_events == PoissonDraw(r)
        spike_usage == spike_events * UniformDraw(RngNext(r))
        usage_variation == NormalDraw(RngNext(RngNext(r)))
        total_usage == MulFix(base_usage + spike_usage, usage_variation)
    IN  Ok(MulFix(MulFix(users, total_usage), price_per_unit),
           RngNext(RngNext(RngNext(r))))

UsageBasedPrice(params) ==
    Ok(MulFix(GetOr(params, "avg_usage", 20 * Scale),
              GetOr(params, "price_per_unit", 5000)), 0)

\* model.calculate_revenue(users, params), dispatched on the model's class;
\* r is the generator state before the call, .rng the state after it
calculate_revenue(m, users, params, r) ==
    CASE m = "FlatMonthly" -> FlatMonthlyRevenue(users, params, r)
      [] m = "YearlySubscription" -> YearlyRevenue(users, params, r)
      [] m = "PremiumMonthly" -> PremiumMonthlyRevenue(users, params, r)
      [] m = "PremiumYearlySubscription" -> PremiumYearlyRevenue(users, params, r)
      [] m = "UsageBased" -> UsageBasedRevenue(users, params, r)

\* model.effective_price_per_user(params)
effective_price_per_user(m, params) ==
    CASE m = "FlatMonthly" -> FlatMonthlyPrice(params)
      [] m = "YearlySubscription" -> YearlyPrice(params)
      [] m = "PremiumMonthly" -> PremiumMonthlyPrice(params)
      [] m = "PremiumYearlySubscription" -> PremiumYearlyPrice(params)
      [] m = "UsageBased" -> UsageBasedPrice(params)

\* -------------------------------------------------------- objectives.py
\* np.diff(revenues) / (revenues[:-1] + 1e-9), one rate per period
GrowthRate(prev, next) ==
    IF prev > 0 THEN DivFix(next - prev, prev)
    ELSE IF next = prev THEN 0
    ELSE IF next > prev THEN 10^5 * Scale ELSE 0 - 10^5 * Scale

revenue_growth_curve(revenues) ==
    IF Len(revenues) < 2 \/ \A i \in DOMAIN revenues : revenues[i] = 0
    THEN 0
    ELSE Bind([i \in 1..(Len(revenues) - 1) |->
                  GrowthRate(revenues[i], revenues[i + 1])],
              LAMBDA growth_rates :
                  (Clip(SeqSum(growth_rates) \div Len(growth_rates),
                        0 - Scale, Scale) + Scale) \div 2)

\* customer_satisfaction(price, churn_rate, base_price=10)
customer_satisfaction(price, churn_rate) ==
    LET base == Max(0, Scale - churn_rate)
        price_penalty == Max(0, DivFix(price, 10 * Scale) - Scale) \div 2
    IN  Clip(base - price_penalty, 0, Scale)

\* fairness_metric(user_usages, user_prices)
\* np.std(ratios) / (np.mean(ratios) + 1e-9)
Inequality(ratios) ==
    Bind(SeqSum(ratios) \div Len(ratios), LAMBDA mean :
        Bind(Isqrt(SeqSum([i \in DOMAIN ratios |->
                             (ratios[i] - mean) * (ratios[i] - mean)])
                   \div Len(ratios)),
             LAMBDA std : IF mean = 0 THEN 0 ELSE DivFix(std, mean)))

fairness_metric(user_usages, user_prices) ==
    Bind([i \in DOMAIN user_usages |->
             IF user_usages[i] # 0
             THEN DivFix(user_prices[i], user_usages[i]) ELSE 0],
         LAMBDA ratios : Scale - Clip(Inequality(ratios), 0, Scale))

\* ------------------------------------------------------------- state
VARIABLES
    cfg,      \* Config.params after _apply_defaults (shared, passed by reference)
    sim,      \* the Simulation object: its model and the months it captured
    rng,      \* the state of numpy's process-wide generator
    run,      \* the frame of the run_once call in progress (sequential program)
    mr,       \* the frame of the multi_run call in progress
    caller,   \* what the top-level caller is executing
    mainf,    \* the frame of main(): where it is and the error it died with
    api,      \* outcome of the last direct call of a pricing model's method
    workers,  \* frames of run_once calls executed on separate workers
    sweep,    \* the frame of the test_price_range call in progress
    em,       \* the PriceElasticityModel object: its elasticity_ attribute
    hist,     \* whether an earlier fit on em returned without raising
    lf,       \* the frame of forecast_server_load_one_step's capacity search
    opt,      \* the frame of the optimize_price call in progress
    outcome   \* outcome of the last forecaster, model or evaluation call

\* the state of the forecasting and optimisation modules
fvars == <<em, hist, lf, opt, outcome>>

vars == <<cfg, sim, rng, run, mr, caller, mainf, api, workers, sweep, fvars>>

NoSeed == 0 - 1
EmptyDict == [k \in {} |-> 0]

\* ------------------------------------------------------- simulation.py
\* Simulation.__init__
Simulation(config, model) == [model |-> model, months |-> config["months"]]

\* a churn measured against a fixed reference price of 10
dynamic_churn_fixed_reference(price, base_churn, config) ==
    base_churn + MulFix(100, DivFix(price, 10 * Scale) - Scale) * 10

\* Simulation.dynamic_churn
dynamic_churn(price, base_churn, config) ==
    LET baseline_price == config["monthly_price"]
    IN  base_churn + MulFix(100, DivFix(price, baseline_price) - Scale) * 10

\* a decay counted from month 0: the first month undecayed
dynamic_growth_from_zero(month, base_growth) ==
    MulFix(base_growth, ExpDecay(month - 1))

\* Simulation.dynamic_growth
dynamic_growth(month, base_growth) == MulFix(base_growth, ExpDecay(month))

\* Simulation.dynamic_cost_ratio
dynamic_cost_ratio(users, base_cost_ratio) ==
    LET scale_factor == Log10(users + 10 * Scale) \div 4
        improvement == MulFix(1000, scale_factor)
    IN  MulFix(base_cost_ratio, Scale - improvement)

IdleFrame ==
    [pc |-> "idle", seed |-> NoSeed, months |-> 0, month |-> 0,
     users |-> 0, users_prev |-> 0,
     base_growth |-> 0, base_churn |-> 0, base_cost_ratio |-> 0, price |-> 0,
     growth |-> 0, churn |-> 0, cost_ratio |-> 0,
     revenue |-> 0, cost |-> 0, profit |-> 0,
     profits |-> <<>>, revenues |-> <<>>,
     revenue_growth |-> 0, satisfaction |-> 0, fairness |-> 0,
     err |-> NoError]

\* the frame on entry to run_once(seed)
NewFrame(seed) == [IdleFrame EXCEPT !.pc = "start", !.seed = seed]

Step(f, r) == [frame |-> f, rng |-> r]

\* a run that leaves the generator as it finds it
SeedIgnored(seed, r) == r

\* lines 28-29: if seed is not None: np.random.seed(seed)
SeedOnEntry(seed, r) == IF seed # NoSeed THEN SeedState(seed) ELSE r

\* lines 28-39: seed the generator, read the config, ask the model its price
StepStart(f, r, config, s) ==
    LET r1 == SeedOnEntry(f.seed, r)
        p == effective_price_per_user(s.model, config)
    IN  IF p.err # NoError
        THEN Step([f EXCEPT !.pc = "raised", !.err = p.err], r1)
        ELSE Step([f EXCEPT !.pc = "loop",
                            !.months = s.months,
                            !.users = config["initial_users"],
                            !.base_growth = config["growth_rate"],
                            !.base_churn = config["churn_rate"],
                            !.base_cost_ratio = config["cost_ratio"],
                            !.price = p.value,
                            !.profits = <<>>,
                            !.revenues = <<>>,
                            !.churn = config["churn_rate"],
                            !.month = 1], r1)

\* a loop that runs one month too many
LoopCondOffByOne(month, months) == month <= months + 1

\* line 41: for month in range(1, self.months + 1)
LoopCond(month, months) == month <= months

StepLoop(f, r) ==
    IF LoopCond(f.month, f.months)
    THEN Step([f EXCEPT !.pc = "rates"], r)
    ELSE Step([f EXCEPT !.pc = "fairness"], r)

\* lines 42-44: the three dynamic rates
StepRates(f, r, config) ==
    Step([f EXCEPT !.pc = "update",
                   !.growth = dynamic_growth(f.month, f.base_growth),
                   !.churn = dynamic_churn(f.price, f.base_churn, config),
                   !.cost_ratio = dynamic_cost_ratio(f.users, f.base_cost_ratio)],
         r)

\* the user update without the floor at zero
StepUpdateNoClamp(f, r) ==
    Step([f EXCEPT !.pc = "revenue",
                   !.users_prev = f.users,
                   !.users = f.users + MulFix(f.users, f.growth)
                               - MulFix(f.users, f.churn)], r)

\* lines 46-48: the user update; users_prev keeps the count the month began with
StepUpdate(f, r) ==
    LET new_users == MulFix(f.users, f.growth)
        lost_users == MulFix(f.users, f.churn)
    IN  Step([f EXCEPT !.pc = "revenue",
                       !.users_prev = f.users,
                       !.users = Max(f.users + new_users - lost_users, 0)], r)

\* line 50: revenue from the model (may draw, may raise)
StepRevenue(f, r, config, s) ==
    LET res == calculate_revenue(s.model, f.users, config, r)
    IN  IF res.err # NoError
        THEN Step([f EXCEPT !.pc = "raised", !.err = res.err], res.rng)
        ELSE Step([f EXCEPT !.pc = "cost", !.revenue = res.value], res.rng)

\* lines 51-55: cost, profit, append to both series; next month
StepCost(f, r) ==
    LET cost == MulFix(f.revenue, f.cost_ratio)
        profit == f.revenue - cost
    IN  Step([f EXCEPT !.pc = "loop",
                       !.cost = cost,
                       !.profit = profit,
                       !.revenues = Append(f.revenues, f.revenue),
                       !.profits = Append(f.profits, profit),
                       !.month = f.month + 1], r)

\* lines 57-72: the fairness sample (two sampled users stand for the hundred)
\* and the scalar metrics
StepFairness(f, r, s) ==
    LET user_usages == <<LognormalDraw(r), LognormalDraw(RngNext(r))>>
        mean_usage == SeqSum(user_usages) \div 2
        user_prices ==
            IF s.model = "UsageBased"
            THEN [i \in 1..2 |->
                    MulFix(user_usages[i], DivFix(f.price, mean_usage))]
            ELSE IF s.model = "YearlySubscription"
            THEN [i \in 1..2 |-> f.price]
            ELSE [i \in 1..2 |-> MulFix(f.price, 10500)]
    IN  Step([f EXCEPT !.pc = "done",
                       !.revenue_growth = revenue_growth_curve(f.revenues),
                       !.satisfaction = customer_satisfaction(f.price, f.churn),
                       !.fairness = fairness_metric(user_usages, user_prices)],
             RngNext(RngNext(r)))

\* lines 66-73: the dict run_once returns
Metrics(f) ==
    [profits |-> f.profits, revenues |-> f.revenues,
     revenue_growth |-> f.revenue_growth, satisfaction |-> f.satisfaction,
     fairness |-> f.fairness]

\* one step of run_once, whichever line it is at
RunStep(f, r, config, s) ==
    CASE f.pc = "start" -> StepStart(f, r, config, s)
      [] f.pc = "loop" -> StepLoop(f, r)
      [] f.pc = "rates" -> StepRates(f, r, config)
      [] f.pc = "update" -> StepUpdate(f, r)
      [] f.pc = "revenue" -> StepRevenue(f, r, config, s)
      [] f.pc = "cost" -> StepCost(f, r)
      [] f.pc = "fairness" -> StepFairness(f, r, s)
      [] OTHER -> Step(f, r)

Finished(f) == f.pc \in {"done", "raised"}
Running(f) == f.pc \notin {"idle", "done", "raised"}

\* run_once executed from its first line to its return with nothing interleaved
RECURSIVE RunToEnd(_, _, _, _)
RunToEnd(f, r, config, s) ==
    IF ~Running(f) THEN Step(f, r)
    ELSE LET n == RunStep(f, r, config, s)
         IN  RunToEnd(n.frame, n.rng, config, s)

\* --------------------------------------------------- multi_run frame
IdleMulti ==
    [pc |-> "idle", runs |-> 0, i |-> 0, calls |-> <<>>,
     all_profits |-> <<>>, all_revenues |-> <<>>,
     growths |-> <<>>, satisfactions |-> <<>>, fairnesses |-> <<>>,
     stats |-> EmptyDict, err |-> NoError]

\* ndarray.mean(axis=0) of a list of equally long rows; column j of the result
ColumnMean(rows, j) == SeqSum([i \in 1..Len(rows) |-> rows[i][j]]) \div Len(rows)

\* ndarray.std(axis=0): population standard deviation of column j, the
\* deviations taken in whole units
ColumnStd(rows, j) ==
    LET m == ColumnMean(rows, j)
        n == Len(rows)
        dev == [i \in 1..n |-> (rows[i][j] - m) \div Scale]
    IN  Isqrt(SeqSum([i \in 1..n |-> (dev[i] * dev[i]) \div n])) * Scale

\* np.mean of a list of scalars
ScalarMean(xs) == SeqSum(xs) \div Len(xs)

\* lines 90-100: the reduction.  With no rows every mean is taken over an
\* empty array: numpy returns nan (with a warning), it does not raise
Reduce(all_profits, all_revenues, growths, satisfactions, fairnesses) ==
    IF Len(all_profits) = 0
    THEN [nan |-> TRUE, mean_profit |-> <<>>, std_profit |-> <<>>,
          mean_revenue |-> <<>>, revenue_growth |-> 0, satisfaction |-> 0,
          fairness |-> 0]
    ELSE LET width == Len(all_profits[1])
         IN  [nan |-> FALSE,
              mean_profit |-> [j \in 1..width |-> ColumnMean(all_profits, j)],
              std_profit |-> [j \in 1..width |-> ColumnStd(all_profits, j)],
              mean_revenue |-> [j \in 1..width |-> ColumnMean(all_revenues, j)],
              revenue_growth |-> ScalarMean(growths),
              satisfaction |-> ScalarMean(satisfactions),
              fairness |-> ScalarMean(fairnesses)]

\* seeds counted from one
RunSeedShifted(i) == i + 1

\* line 83: the seed multi_run passes to its i-th run_once call
RunSeed(i) == i

\* -------------------------------------------------------------- main.py
IdleMain == [pc |-> "idle", err |-> NoError]

\* the models main() simulates (lines 30-35)
MainModels == {"FlatMonthly", "YearlySubscription", "PremiumMonthly",
               "PremiumYearlySubscription"}

\* the keys main() reads from the dict run_once returned, in order
\* (lines 47, 48, 54, 55)
MainReads == <<"profits", "users", "final_users", "profits">>

\* stats[key] for each key in turn: the first absent key raises KeyError
RECURSIVE ReadKeys(_, _)
ReadKeys(stats, keys) ==
    IF keys = <<>> THEN NoError
    ELSE IF Head(keys) \notin DOMAIN stats THEN KeyError(Head(keys))
    ELSE ReadKeys(stats, Tail(keys))

\* ----------------------------------------------------- forecaster_cost.py
\* every check of the forecasting and optimisation modules raises a
\* ValueError that carries its message
ValueError(msg) == [kind |-> "ValueError", args |-> <<msg>>]

\* int(x) of a float: truncation toward zero
IntTrunc(x) == IF x >= 0 THEN x \div Scale ELSE 0 - ((0 - x) \div Scale)

\* math.sqrt(x) of a fixed-point number
SqrtFix(x) == Isqrt(x * Scale)

\* math.exp(-y) for y >= 0: the argument is halved until it is at most 1/4,
\* the Taylor polynomial of degree four is taken there and squared back
RECURSIVE ExpNeg(_)
ExpNeg(y) ==
    IF y > Scale \div 4
    THEN Bind(ExpNeg(y \div 2), LAMBDA h : MulFix(h, h))
    ELSE Bind(MulFix(y, y), LAMBDA y2 :
             Scale - y + y2 \div 2 - MulFix(y2, y) \div 6
             + MulFix(y2, y2) \div 24)

\* exp(-lam + k*log(lam) - lgamma(k + 1)) is e^-lam * lam^k / k!: p is the
\* term of index i, the factors lam/(i+1), ..., lam/k are applied in turn,
\* and a term that has underflowed to zero stays zero
RECURSIVE PmfTerm(_, _, _, _)
PmfTerm(i, p, k, lam) ==
    IF i = k \/ p = 0 THEN p
    ELSE Bind(MulFix(p, lam) \div (i + 1), LAMBDA q : PmfTerm(i + 1, q, k, lam))

\* lines 4-13
poisson_pmf(k, lam) ==
    IF k < 0 THEN 0
    ELSE IF lam = 0 THEN (IF k = 0 THEN Scale ELSE 0)
    ELSE PmfTerm(0, ExpNeg(lam), k, lam)

\* lines 19-21: total += poisson_pmf(i, lam) for i in lo..hi, summed by halves
RECURSIVE PmfSum(_, _, _)
PmfSum(lo, hi, lam) ==
    IF lo > hi THEN 0
    ELSE IF lo = hi THEN poisson_pmf(lo, lam)
    ELSE Bind((lo + hi) \div 2, LAMBDA mid :
             PmfSum(lo, mid, lam) + PmfSum(mid + 1, hi, lam))

\* lines 15-22
poisson_cdf(k, lam) == IF k < 0 THEN 0 ELSE PmfSum(0, k, lam)

\* the frame of a forecast_server_load_one_step call
IdleLoad == [pc |-> "idle", forecasted_users |-> 0,
             avg_requests_per_user |-> 0, coverage_prob |-> 0, lam |-> 0,
             pmf_table |-> <<>>, C |-> 0, upper_bound |-> 0, cdf_val |-> 0,
             err |-> NoError]

\* line 57: int(lam * 10 + 1000) if lam > 0 else 1000
UpperBound(lam) == IF lam > 0 THEN IntTrunc(lam * 10 + 1000 * Scale) ELSE 1000

\* lines 48-54: the pmf of k_min..k_max around the mean, as the list of
\* pairs (k, pmf)
PmfTable(lam) ==
    LET std == SqrtFix(lam)
        k_min == Max(0, IntTrunc(lam - 4 * std))
        k_max == IntTrunc(lam + 4 * std + 10 * Scale)
    IN  [j \in 1..(k_max - k_min + 1) |->
            <<k_min + j - 1, poisson_pmf(k_min + j - 1, lam)>>]

\* lines 39-57: the checks of the inputs, lam, the table, and the search
\* initialised at capacity 0
LoadStart(U, r, coverage_prob) ==
    LET f == [IdleLoad EXCEPT !.forecasted_users = U,
                              !.avg_requests_per_user = r,
                              !.coverage_prob = coverage_prob]
    IN  IF U < 0
        THEN [f EXCEPT !.pc = "raised",
                       !.err = ValueError("forecasted_users cannot be negative.")]
        ELSE IF r < 0
        THEN [f EXCEPT !.pc = "raised",
                       !.err = ValueError("avg_requests_per_user cannot be negative.")]
        ELSE Bind(MulFix(U, r), LAMBDA lam :
                 [f EXCEPT !.pc = "search", !.lam = lam,
                           !.pmf_table = PmfTable(lam),
                           !.C = 0, !.upper_bound = UpperBound(lam)])

\* line 60: the condition the search tests to stop
Covered(cdf_val, coverage_prob) == cdf_val >= coverage_prob

\* lines 58-63: one pass through the while loop
SearchStep(f) ==
    IF f.C <= f.upper_bound
    THEN Bind(poisson_cdf(f.C, f.lam), LAMBDA c :
             IF Covered(c, f.coverage_prob)
             THEN [f EXCEPT !.pc = "done", !.cdf_val = c]
             ELSE [f EXCEPT !.C = f.C + 1, !.cdf_val = c])
    ELSE [f EXCEPT !.pc = "done"]

\* the call run to its return
RECURSIVE LoadToEnd(_)
LoadToEnd(f) == IF f.pc = "search" THEN LoadToEnd(SearchStep(f)) ELSE f

\* lines 66-74: the pair (expected_load, diagnostics) the call returns
LoadResult(f) ==
    [expected_load |-> f.lam,
     diagnostics |-> [lambda |-> f.lam, expected_load |-> f.lam,
                      pmf_table |-> f.pmf_table,
                      capacity_for_coverage |-> f.C,
                      coverage_probability |-> f.coverage_prob]]

\* ----------------------------------------------------- forecaster_user.py
\* line 16: deltas = users[1:] - users[:-1]
Deltas(users) == [i \in 1..(Len(users) - 1) |-> users[i + 1] - users[i]]

IsUp(d) == d > 0
IsDown(d) == d < 0

\* ndarray.mean() of a non-empty array
Mean(xs) == SeqSum(xs) \div Len(xs)

\* lines 41-49: the mean of the selected deltas, 0.0 when there are none
MeanOrZero(xs) == IF Len(xs) = 0 THEN 0 ELSE Mean(xs)

\* the decreases taken as absolute values
DownMagnitudes(deltas) ==
    [i \in 1..Len(SelectSeq(deltas, IsDown)) |->
        Abs(SelectSeq(deltas, IsDown)[i])]

\* lines 38-39: down_changes = deltas[down_mask], the decreases with their
\* sign
DownChanges(deltas) == SelectSeq(deltas, IsDown)

\* a value returned, or the exception raised, by a call
Value(v) == [err |-> NoError, value |-> v]
Raise(e) == [err |-> e, value |-> 0]

\* a forecaster that accepts a history of one count
TooShortBelowOne(users) == Len(users) < 1

\* line 12: the history is too short to have a change
TooShort(users) == Len(users) < 2

\* lines 3-65
forecast_next_active_users(users) ==
    IF TooShort(users)
    THEN Raise(ValueError("Need at least 2 data points to compute changes."))
    ELSE LET deltas == Deltas(users)
             up_changes == SelectSeq(deltas, IsUp)
             down_changes == DownChanges(deltas)
             k == Len(up_changes)
             n == Len(up_changes) + Len(down_changes)
             last == users[Len(users)]
         IN  IF n = 0
             THEN Value([forecast_next |-> last,
                         diagnostics |-> [p_up |-> Scale \div 2,
                                          expected_change |-> 0,
                                          forecast_next |-> last]])
             ELSE LET p_up == DivFix(k * Scale, n * Scale)
                      mu_up == MeanOrZero(up_changes)
                      mu_down == MeanOrZero(down_changes)
                      expected_change == MulFix(p_up, mu_up)
                                         + MulFix(Scale - p_up, mu_down)
                  IN  Value([forecast_next |-> last + expected_change,
                             diagnostics |-> [p_up |-> p_up,
                                              expected_change |-> expected_change,
                                              forecast_next |-> last + expected_change]])

\* np.log(x) for x > 0
RECURSIVE Ln(_)
Ln(x) ==
    IF x >= Scale THEN MulFix(Log10(x), 23026)
    ELSE 0 - Ln(DivFix(Scale, x))

\* the pairs lines 99-104 keep: both the price and the user count positive
PositivePairs(prices, users) ==
    SelectSeq([i \in 1..Len(prices) |-> <<prices[i], users[i]>>],
              LAMBDA pq : pq[1] > 0 /\ pq[2] > 0)

\* np.polyfit(logP, logQ, 1)[0]: the least-squares slope, for abscissae that
\* are not all equal
PolyfitSlope(xs, ys) ==
    LET n == Len(xs)
        mx == SeqSum(xs) \div n
        my == SeqSum(ys) \div n
        sxy == SeqSum([i \in 1..n |-> MulFix(xs[i] - mx, ys[i] - my)])
        sxx == SeqSum([i \in 1..n |-> MulFix(xs[i] - mx, xs[i] - mx)])
    IN  IF sxy >= 0 THEN DivFix(sxy, sxx) ELSE 0 - DivFix(0 - sxy, sxx)

\* PriceElasticityModel.__init__ (lines 80-81): elasticity_ = None
NewModel == [none |-> TRUE, elasticity_ |-> 0]

\* PriceElasticityModel.fit (lines 83-114): the outcome of the call and the
\* model it leaves; elasticity_ is assigned on line 112 only
Fit(model, prices, users) ==
    IF Len(prices) # Len(users)
    THEN [out |-> Raise(ValueError("prices and users must have the same length.")),
          model |-> model]
    ELSE IF Len(prices) < 2
    THEN [out |-> Raise(ValueError("Need at least 2 observations to estimate elasticity.")),
          model |-> model]
    ELSE LET kept == PositivePairs(prices, users)
         IN  IF Len(kept) < 2
             THEN [out |-> Raise(ValueError("Need at least 2 positive (price, user) pairs.")),
                   model |-> model]
             ELSE LET b == PolyfitSlope([i \in 1..Len(kept) |-> Ln(kept[i][1])],
                                        [i \in 1..Len(kept) |-> Ln(kept[i][2])])
                  IN  [out |-> Value(b),
                       model |-> [none |-> FALSE, elasticity_ |-> b]]

\* a model that is taken as fitted from its construction
NotFittedNever(model) == FALSE

\* line 126: the test predict_users makes first
NotFittedYet(model) == model.none

\* PriceElasticityModel.predict_users (lines 116-154)
predict_users(model, current_price, new_price, current_users) ==
    IF NotFittedYet(model)
    THEN Raise(ValueError("Model not fitted yet. Call fit(prices, users) first."))
    ELSE IF current_price <= 0 \/ new_price <= 0
    THEN Raise(ValueError("Prices must be positive."))
    ELSE IF current_users < 0
    THEN Raise(ValueError("Current users cannot be negative."))
    ELSE LET pct_change_price == DivFix(new_price - current_price, current_price)
             pct_change_users == MulFix(model.elasticity_, pct_change_price)
             Q1 == MulFix(current_users, Scale + pct_change_users)
         IN  Value([elasticity_used |-> model.elasticity_,
                    predicted_users |-> Q1,
                    user_loss |-> current_users - Q1])

\* ------------------------------------- forecaster_cost.py, continued
\* lines 94-102: the loop over the horizon from step t on; the exception of
\* a step is not caught
RECURSIVE HorizonFrom(_, _, _, _, _, _)
HorizonFrom(list, t, total, per_step, r, coverage_prob) ==
    IF t > Len(list) THEN Value([total_expected_usage |-> total,
                                 per_step |-> per_step])
    ELSE Bind(LoadToEnd(LoadStart(list[t], r, coverage_prob)), LAMBDA f :
             IF f.pc = "raised" THEN Raise(f.err)
             ELSE HorizonFrom(list, t + 1, total + LoadResult(f).expected_load,
                              Append(per_step, LoadResult(f).diagnostics),
                              r, coverage_prob))

\* lines 76-111
forecast_total_usage_over_horizon(list, r, coverage_prob) ==
    Bind(HorizonFrom(list, 1, 0, <<>>, r, coverage_prob), LAMBDA h :
        IF h.err # NoError THEN h
        ELSE Value([total_expected_usage |-> h.value.total_expected_usage,
                    diagnostics |-> [per_step |-> h.value.per_step,
                                     coverage_probability |-> coverage_prob,
                                     avg_requests_per_user |-> r]]))

\* lines 128-146
compute_expected_cost(total_expected_requests, cost_per_request) ==
    IF total_expected_requests < 0
    THEN Raise(ValueError("total_expected_requests cannot be negative."))
    ELSE IF cost_per_request < 0
    THEN Raise(ValueError("cost_per_request cannot be negative."))
    ELSE Value(MulFix(total_expected_requests, cost_per_request))

\* -------------------------------------------------------- optimization.py
\* x / y of two floats, y > 0, the sign of x kept
Ratio(x, y) == IF x >= 0 THEN DivFix(x, y) ELSE 0 - DivFix(0 - x, y)

\* the blend without the floor at zero
CombineUnfloored(trend_next_users, current_users, predicted) ==
    IF current_users <= 0 THEN trend_next_users
    ELSE MulFix(trend_next_users, Ratio(predicted, current_users))

\* lines 38-51
\* (predicted: the elasticity_predicted_users argument)
CombineTrendAndPriceEffect(trend_next_users, current_users, predicted) ==
    IF current_users <= 0 THEN Max(trend_next_users, 0)
    ELSE Max(MulFix(trend_next_users, Ratio(predicted, current_users)), 0)

\* the arguments optimize_price passes on to every evaluation
NoArgs == [current_price |-> 0, historical_users |-> <<>>,
           avg_requests_per_user |-> 0, cost_per_request |-> 0,
           coverage_prob |-> 0]

\* lines 79-117: the evaluation once the trend and the elasticity
\* prediction are known
EvaluateWith(new_price, a, trend, elasticity_res) ==
    LET current_users == a.historical_users[Len(a.historical_users)]
        predicted_users ==
            CombineTrendAndPriceEffect(trend.forecast_next, current_users,
                                       elasticity_res.predicted_users)
        revenue == MulFix(new_price, predicted_users)
        usage == forecast_total_usage_over_horizon(<<predicted_users>>,
                     a.avg_requests_per_user, a.coverage_prob)
    IN  IF usage.err # NoError THEN Raise(usage.err)
        ELSE LET cost == compute_expected_cost(usage.value.total_expected_usage,
                                               a.cost_per_request)
             IN  IF cost.err # NoError THEN Raise(cost.err)
                 ELSE Value([price |-> new_price,
                             predicted_users |-> predicted_users,
                             user_growth |-> predicted_users - current_users,
                             revenue |-> revenue,
                             expected_usage |-> usage.value.total_expected_usage,
                             expected_cost |-> cost.value,
                             profit |-> revenue - cost.value,
                             score |-> 0,
                             diagnostics |-> [trend |-> trend.diagnostics,
                                              elasticity |-> elasticity_res,
                                              usage |-> usage.value.diagnostics]])

\* lines 54-117
evaluate_price_option(new_price, a, model) ==
    IF Len(a.historical_users) < 1
    THEN Raise(ValueError("historical_users must contain at least one value."))
    ELSE LET trend == forecast_next_active_users(a.historical_users)
         IN  IF trend.err # NoError THEN Raise(trend.err)
             ELSE LET elasticity_res ==
                          predict_users(model, a.current_price, new_price,
                              a.historical_users[Len(a.historical_users)])
                  IN  IF elasticity_res.err # NoError
                      THEN Raise(elasticity_res.err)
                      ELSE EvaluateWith(new_price, a, trend.value,
                                        elasticity_res.value)

\* a weight that is accepted whatever its value
WeightUnchecked(w) == TRUE

\* line 143: the test of the hybrid weight
WeightInRange(w) == 0 <= w /\ w <= Scale

\* max(xs), min(xs) of a non-empty sequence of numbers
SeqMax(xs) == CHOOSE v \in Range(xs) : \A u \in Range(xs) : u <= v
SeqMin(xs) == CHOOSE v \in Range(xs) : \A u \in Range(xs) : v <= u

\* the largest predicted_users as it is
MaxUsersUnfloored(evaluated) ==
    SeqMax([i \in 1..Len(evaluated) |-> evaluated[i].predicted_users])

\* line 159: max(...) or 1.0 -- the value 1.0 replaces a maximum that is
\* falsy, that is equal to zero
MaxUsers(evaluated) ==
    LET m == SeqMax([i \in 1..Len(evaluated) |-> evaluated[i].predicted_users])
    IN  IF m = 0 THEN Scale ELSE m

\* line 163: 1e-9, the smallest positive number of the representation
Epsilon == 1

\* lines 160-163
ProfitRange(evaluated) ==
    LET profits == [i \in 1..Len(evaluated) |-> evaluated[i].profit]
    IN  Max(SeqMax(profits) - SeqMin(profits), Epsilon)

Objectives == {"user_growth", "profit", "hybrid"}

\* lines 165-174: score_fn for a supported objective
ScoreFn(res, objective, w, evaluated) ==
    IF objective = "user_growth" THEN res.predicted_users
    ELSE IF objective = "profit" THEN res.profit
    ELSE LET profits == [i \in 1..Len(evaluated) |-> evaluated[i].profit]
             growth_score == Ratio(res.predicted_users, MaxUsers(evaluated))
             profit_score == Ratio(res.profit - SeqMin(profits),
                                   ProfitRange(evaluated))
         IN  MulFix(w, growth_score) + MulFix(Scale - w, profit_score)

\* the last of the elements whose key is maximal
LastMax(scored) ==
    CHOOSE i \in 1..Len(scored) :
        /\ \A j \in 1..Len(scored) : scored[j].score <= scored[i].score
        /\ \A j \in (i + 1)..Len(scored) : scored[j].score < scored[i].score

\* line 179: max(evaluated, key=...) returns the first of the elements
\* whose key is maximal
FirstMax(scored) ==
    CHOOSE i \in 1..Len(scored) :
        /\ \A j \in 1..Len(scored) : scored[j].score <= scored[i].score
        /\ \A j \in 1..(i - 1) : scored[j].score < scored[i].score

\* the frame of an optimize_price call
IdleOpt == [pc |-> "idle", price_grid |-> <<>>, args |-> NoArgs,
            objective |-> "none", hybrid_weight_growth |-> 0, i |-> 0,
            evaluated |-> <<>>, max_users |-> 0, profit_range |-> 0,
            best |-> 0, err |-> NoError]

\* lines 143-145: the check of the weight, then the empty list of results
OptStart(price_grid, a, objective, w) ==
    LET f == [IdleOpt EXCEPT !.price_grid = price_grid, !.args = a,
                             !.objective = objective,
                             !.hybrid_weight_growth = w]
    IN  IF ~WeightInRange(w)
        THEN [f EXCEPT !.pc = "raised",
                       !.err = ValueError("hybrid_weight_growth must be between 0 and 1.")]
        ELSE [f EXCEPT !.pc = "evaluate", !.i = 1]

\* lines 146-157: one pass through the loop over the grid
OptEvaluateStep(f, model) ==
    Bind(evaluate_price_option(f.price_grid[f.i], f.args, model), LAMBDA res :
        IF res.err # NoError THEN [f EXCEPT !.pc = "raised", !.err = res.err]
        ELSE [f EXCEPT !.i = f.i + 1,
                       !.evaluated = Append(f.evaluated, res.value)])

\* lines 171-172: a float division by zero raises
ZeroDivisionError == [kind |-> "ZeroDivisionError",
                      args |-> <<"float division by zero">>]

\* lines 159-180: the normalisation constants, the scores and the choice
OptScoreStep(f) ==
    IF Len(f.evaluated) = 0
    THEN [f EXCEPT !.pc = "raised",
                   !.err = ValueError("max() arg is an empty sequence")]
    ELSE IF f.objective \notin Objectives
    THEN [f EXCEPT !.pc = "raised",
                   !.max_users = MaxUsers(f.evaluated),
                   !.profit_range = ProfitRange(f.evaluated),
                   !.err = ValueError("Unsupported objective")]
    ELSE IF /\ f.objective = "hybrid"
            /\ (MaxUsers(f.evaluated) = 0 \/ ProfitRange(f.evaluated) = 0)
    THEN [f EXCEPT !.pc = "raised",
                   !.max_users = MaxUsers(f.evaluated),
                   !.profit_range = ProfitRange(f.evaluated),
                   !.err = ZeroDivisionError]
    ELSE LET scored == [i \in 1..Len(f.evaluated) |->
                           [f.evaluated[i] EXCEPT
                              !.score = ScoreFn(f.evaluated[i], f.objective,
                                                f.hybrid_weight_growth,
                                                f.evaluated)]]
         IN  [f EXCEPT !.pc = "done",
                       !.max_users = MaxUsers(f.evaluated),
                       !.profit_range = ProfitRange(f.evaluated),
                       !.evaluated = scored,
                       !.best = FirstMax(scored)]

\* ------------------------------------------------------ price_optimizer.py
IndexError(msg) == [kind |-> "IndexError", args |-> <<msg>>]

\* the frame of a test_price_range call; before is the content the caller's
\* Config had when the call was made
IdleSweep == [pc |-> "idle", price_key |-> "none", price_values |-> <<>>,
              i |-> 0, results |-> <<>>, before |-> EmptyDict, err |-> NoError]

\* main.py lines 79-84: the key swept for each model of main()
PriceTestKey(model) ==
    IF model \in {"FlatMonthly", "YearlySubscription"} THEN "monthly_price"
    ELSE "premium_monthly_price"

\* line 19: cfg.params[price_key] = p, on the dict of the caller's Config
Override(params, price_key, p) ==
    [k \in (DOMAIN params) \cup {price_key} |->
        IF k = price_key THEN p ELSE params[k]]

\* lines 24-31: the reads of the dict run_once returned, and the row appended
SweepRow(stats, p) ==
    IF Len(stats["profits"]) = 0
    THEN Raise(IndexError("list index out of range"))
    ELSE IF "final_users" \notin DOMAIN stats
    THEN Raise(KeyError("final_users"))
    ELSE Value([price |-> p,
                profit |-> stats["profits"][Len(stats["profits"])],
                users |-> stats["final_users"]])

\* lines 34-37: the best rows of a non-empty list, the first of the maxima
SweepBest(results) ==
    [best_profit |-> CHOOSE i \in 1..Len(results) :
                         /\ \A j \in 1..Len(results) :
                                results[j].profit <= results[i].profit
                         /\ \A j \in 1..(i - 1) :
                                results[j].profit < results[i].profit,
     best_users |-> CHOOSE i \in 1..Len(results) :
                         /\ \A j \in 1..Len(results) :
                                results[j].users <= results[i].users
                         /\ \A j \in 1..(i - 1) :
                                results[j].users < results[i].users]

\* ----------------------------------------------------------- scenarios
\* the configurations and models a behaviour starts from
MonthsChoices == {0 - 1, 0, 1, 3, MaxMonths}

\* keys a config.json gives on top of months
ExtraParams ==
    {[initial_users |-> 1000 * Scale, growth_rate |-> 800, churn_rate |-> 300,
      monthly_price |-> 10 * Scale, cost_ratio |-> 6000],
     [churn_rate |-> 12000],
     [premium_monthly_price |-> 5 * Scale],
     [premium_monthly_price |-> 12 * Scale, premium_yearly_discount |-> 7000]}

JsonParams ==
    {[k \in (DOMAIN e) \cup {"months"} |->
         IF k = "months" THEN m ELSE e[k]] :
     e \in ExtraParams, m \in MonthsChoices}

\* parameter sets handed directly to a pricing model's methods
DirectParams ==
    {[monthly_price |-> 10 * Scale],
     [premium_monthly_price |-> 12 * Scale],
     [monthly_price |-> 10 * Scale, premium_monthly_price |-> 12 * Scale,
      yearly_discount |-> 8500],
     [avg_usage |-> 20 * Scale]}

NoCall == [fn |-> "none", model |-> "none", params |-> EmptyDict,
           out |-> Ok(0, 0)]

NumWorkers == 2
IdleWorkers == [w \in 0..(NumWorkers - 1) |-> IdleFrame]

\* ------------------------------------------------ forecasting scenarios
\* the arguments of forecast_server_load_one_step: forecasted users,
\* requests per user and coverage probability
LoadInputs ==
    {<<U, r, c>> : U \in {0 - Scale, 0, Scale, 2 * Scale, 3 * Scale},
                   r \in {0 - Scale, Scale \div 2, Scale},
                   c \in {Scale \div 2, 9900}}
    \cup {<<0, Scale, 3 * (Scale \div 2)>>}

\* histories of active-user counts; the counts are small so that lam stays
\* below 4, where the four-decimal Poisson terms still sum to the coverage
Histories ==
    {<<>>, <<2 * Scale>>, <<Scale, 3 * (Scale \div 2)>>, <<3 * Scale, Scale>>,
     <<Scale \div 2, Scale \div 2>>, <<2 * Scale, 0>>,
     <<Scale, 2 * Scale, 3 * (Scale \div 2), 3 * (Scale \div 2)>>}

\* (prices, users) observations handed to fit
FitData ==
    {<<<<10 * Scale, 12 * Scale>>, <<1000 * Scale, 900 * Scale>>>>,
     <<<<10 * Scale, 12 * Scale>>, <<4 * Scale, 2 * Scale>>>>,
     <<<<10 * Scale, 0, 12 * Scale>>, <<4 * Scale, 3 * Scale, 3 * Scale>>>>,
     <<<<10 * Scale>>, <<5 * Scale>>>>,
     <<<<10 * Scale>>, <<Scale, 2 * Scale>>>>,
     <<<<10 * Scale, 0>>, <<5 * Scale, 5 * Scale>>>>}

\* (current_price, new_price, current_users) handed to predict_users
PredictInputs ==
    {<<10 * Scale, p, q>> : p \in {0, 8 * Scale, 10 * Scale, 15 * Scale},
                            q \in {0 - Scale, 0, 3 * Scale}}

PriceGrids ==
    {<<>>, <<10 * Scale>>, <<8 * Scale, 10 * Scale, 15 * Scale>>,
     <<15 * Scale, 10 * Scale, 10 * Scale>>, <<15 * Scale, 20 * Scale>>}

ObjectiveChoices == Objectives \cup {"revenue"}

Weights == {0 - Scale \div 2, 0, Scale \div 2, Scale, 3 * (Scale \div 2)}

OptArgs ==
    {[current_price |-> 10 * Scale, historical_users |-> h,
      avg_requests_per_user |-> Scale, cost_per_request |-> Scale \div 2,
      coverage_prob |-> 9900] : h \in Histories}
    \cup
    {[current_price |-> 10 * Scale,
      historical_users |-> <<Scale, 3 * (Scale \div 2)>>,
      avg_requests_per_user |-> 0 - Scale, cost_per_request |-> Scale \div 2,
      coverage_prob |-> 9900],
     [current_price |-> 10 * Scale,
      historical_users |-> <<Scale, 3 * (Scale \div 2)>>,
      avg_requests_per_user |-> Scale, cost_per_request |-> 0 - Scale,
      coverage_prob |-> 9900]}

NoOutcome == [fn |-> "none", args |-> <<>>, err |-> NoError, value |-> 0]

ForecastIdle ==
    /\ em = NewModel
    /\ hist = FALSE
    /\ lf = IdleLoad
    /\ opt = IdleOpt
    /\ outcome = NoOutcome

\* the grids of candidate prices handed to test_price_range
SweepGrids == {<<>>, <<5 * Scale, 12 * Scale>>, <<12 * Scale, 5 * Scale>>}

Init ==
    /\ cfg \in {ApplyDefaults(p) : p \in JsonParams}
    /\ \E m \in Models : sim = Simulation(cfg, m)
    /\ rng = 0
    /\ run = IdleFrame
    /\ mr = IdleMulti
    /\ caller = "idle"
    /\ mainf = IdleMain
    /\ api = NoCall
    /\ workers = IdleWorkers
    /\ sweep = IdleSweep
    /\ ForecastIdle

\* ------------------------------------------------- run_once, step by step
\* the caller invokes sim.run_once(seed) (seed None: NoSeed)
CallRunOnce(seed) ==
    /\ caller = "idle"
    /\ caller' = "run_once"
    /\ run' = NewFrame(seed)
    /\ UNCHANGED <<fvars, sweep, cfg, sim, rng, mr, mainf, api, workers>>

RunStart ==
    /\ run.pc = "start"
    /\ LET n == StepStart(run, rng, cfg, sim)
       IN  run' = n.frame /\ rng' = n.rng
    /\ UNCHANGED <<fvars, sweep, cfg, sim, mr, caller, mainf, api, workers>>

RunLoop ==
    /\ run.pc = "loop"
    /\ LET n == StepLoop(run, rng)
       IN  run' = n.frame /\ rng' = n.rng
    /\ UNCHANGED <<fvars, sweep, cfg, sim, mr, caller, mainf, api, workers>>

RunRates ==
    /\ run.pc = "rates"
    /\ LET n == StepRates(run, rng, cfg)
       IN  run' = n.frame /\ rng' = n.rng
    /\ UNCHANGED <<fvars, sweep, cfg, sim, mr, caller, mainf, api, workers>>

RunUpdate ==
    /\ run.pc = "update"
    /\ LET n == StepUpdate(run, rng)
       IN  run' = n.frame /\ rng' = n.rng
    /\ UNCHANGED <<fvars, sweep, cfg, sim, mr, caller, mainf, api, workers>>

RunRevenue ==
    /\ run.pc = "revenue"
    /\ LET n == StepRevenue(run, rng, cfg, sim)
       IN  run' = n.frame /\ rng' = n.rng
    /\ UNCHANGED <<fvars, sweep, cfg, sim, mr, caller, mainf, api, workers>>

RunCost ==
    /\ run.pc = "cost"
    /\ LET n == StepCost(run, rng)
       IN  run' = n.frame /\ rng' = n.rng
    /\ UNCHANGED <<fvars, sweep, cfg, sim, mr, caller, mainf, api, workers>>

RunFairness ==
    /\ run.pc = "fairness"
    /\ LET n == StepFairness(run, rng, sim)
       IN  run' = n.frame /\ rng' = n.rng
    /\ UNCHANGED <<fvars, sweep, cfg, sim, mr, caller, mainf, api, workers>>

\* run_once returns (or its exception reaches) the top-level caller
ReturnRunOnce ==
    /\ caller = "run_once"
    /\ Finished(run)
    /\ run' = IdleFrame
    /\ caller' = "idle"
    /\ UNCHANGED <<fvars, sweep, cfg, sim, rng, mr, mainf, api, workers>>

\* -------------------------------------------------------------- multi_run
CallMultiRun(runs) ==
    /\ caller = "idle"
    /\ caller' = "multi_run"
    /\ mr' = [IdleMulti EXCEPT !.pc = "loop", !.runs = runs]
    /\ UNCHANGED <<fvars, sweep, cfg, sim, rng, run, mainf, api, workers>>

\* lines 82-83: for i in range(runs): self.run_once(seed=i)
MultiRunCall ==
    /\ mr.pc = "loop"
    /\ mr.i < mr.runs
    /\ run' = NewFrame(RunSeed(mr.i))
    /\ mr' = [mr EXCEPT !.pc = "wait", !.calls = Append(mr.calls, RunSeed(mr.i))]
    /\ UNCHANGED <<fvars, sweep, cfg, sim, rng, caller, mainf, api, workers>>

\* lines 84-88: collect the metrics of the run that returned
MultiRunCollect ==
    /\ mr.pc = "wait"
    /\ run.pc = "done"
    /\ mr' = [mr EXCEPT !.pc = "loop",
                        !.i = mr.i + 1,
                        !.all_profits = Append(mr.all_profits, Metrics(run).profits),
                        !.all_revenues = Append(mr.all_revenues, Metrics(run).revenues),
                        !.growths = Append(mr.growths, Metrics(run).revenue_growth),
                        !.satisfactions = Append(mr.satisfactions, Metrics(run).satisfaction),
                        !.fairnesses = Append(mr.fairnesses, Metrics(run).fairness)]
    /\ run' = IdleFrame
    /\ UNCHANGED <<fvars, sweep, cfg, sim, rng, caller, mainf, api, workers>>

\* an exception of run_once is not caught by multi_run
MultiRunRaise ==
    /\ mr.pc = "wait"
    /\ run.pc = "raised"
    /\ mr' = [mr EXCEPT !.pc = "raised", !.err = run.err]
    /\ run' = IdleFrame
    /\ UNCHANGED <<fvars, sweep, cfg, sim, rng, caller, mainf, api, workers>>

\* lines 90-102: the loop is over, reduce and return the stats
MultiRunReduce ==
    /\ mr.pc = "loop"
    /\ ~(mr.i < mr.runs)
    /\ mr' = [mr EXCEPT !.pc = "done",
                        !.stats = Reduce(mr.all_profits, mr.all_revenues,
                                         mr.growths, mr.satisfactions,
                                         mr.fairnesses)]
    /\ UNCHANGED <<fvars, sweep, cfg, sim, rng, run, caller, mainf, api, workers>>

ReturnMultiRun ==
    /\ caller = "multi_run"
    /\ mr.pc \in {"done", "raised"}
    /\ mr' = IdleMulti
    /\ caller' = "idle"
    /\ UNCHANGED <<fvars, sweep, cfg, sim, rng, run, mainf, api, workers>>

\* ------------------------------------------------------------------ main
\* main.py lines 42-44, for one entry of its models table
MainCall ==
    /\ caller = "idle"
    /\ sim.model \in MainModels
    /\ caller' = "main"
    /\ mainf' = [pc |-> "call", err |-> NoError]
    /\ run' = NewFrame(NoSeed)
    /\ UNCHANGED <<fvars, sweep, cfg, sim, rng, mr, api, workers>>

\* main.py lines 46-55: read the dict run_once returned
MainRead ==
    /\ caller = "main"
    /\ mainf.pc = "call"
    /\ Finished(run)
    /\ LET e == IF run.pc = "raised" THEN run.err
                ELSE ReadKeys(Metrics(run), MainReads)
       IN  mainf' = [pc |-> IF e = NoError THEN "done" ELSE "raised", err |-> e]
    /\ run' = IdleFrame
    /\ UNCHANGED <<fvars, sweep, cfg, sim, rng, mr, caller, api, workers>>

MainExit ==
    /\ caller = "main"
    /\ mainf.pc \in {"done", "raised"}
    /\ mainf' = IdleMain
    /\ caller' = "idle"
    /\ UNCHANGED <<fvars, sweep, cfg, sim, rng, run, mr, api, workers>>

\* ------------------------------------------------------- other callers
\* any other code of the process draws from the shared generator
OtherDraw ==
    /\ caller = "idle"
    /\ rng' = RngNext(rng)
    /\ UNCHANGED <<fvars, sweep, cfg, sim, run, mr, caller, mainf, api, workers>>

\* a pricing model's methods called directly with a parameter set
CallCalculateRevenue(m, params) ==
    /\ caller = "idle"
    /\ LET out == calculate_revenue(m, 1000 * Scale, params, rng)
       IN  /\ api' = [fn |-> "calculate_revenue", model |-> m,
                      params |-> params, out |-> [out EXCEPT !.rng = 0]]
           /\ rng' = out.rng
    /\ caller' = "api"
    /\ UNCHANGED <<fvars, sweep, cfg, sim, run, mr, mainf, workers>>

CallEffectivePrice(m, params) ==
    /\ caller = "idle"
    /\ api' = [fn |-> "effective_price_per_user", model |-> m,
               params |-> params, out |-> effective_price_per_user(m, params)]
    /\ caller' = "api"
    /\ UNCHANGED <<fvars, sweep, cfg, sim, rng, run, mr, mainf, workers>>

\* the direct caller has consumed the outcome
ReturnApi ==
    /\ caller = "api"
    /\ api' = NoCall
    /\ caller' = "idle"
    /\ UNCHANGED <<fvars, sweep, cfg, sim, rng, run, mr, mainf, workers>>

\* --------------------------------------------------- test_price_range
\* main.py lines 86-91: test_price_range(model class, cfg, key, values) on
\* the caller's Config
CallTestPriceRange(price_values) ==
    /\ caller = "idle"
    /\ sim.model \in MainModels
    /\ caller' = "sweep"
    /\ sweep' = [IdleSweep EXCEPT !.pc = "loop",
                                  !.price_key = PriceTestKey(sim.model),
                                  !.price_values = price_values,
                                  !.i = 1,
                                  !.before = cfg]
    /\ UNCHANGED <<fvars, cfg, sim, rng, run, mr, mainf, api, workers>>

\* lines 18-22: override the price, build the Simulation, call run_once()
SweepOverride ==
    /\ sweep.pc = "loop"
    /\ sweep.i <= Len(sweep.price_values)
    /\ cfg' = Override(cfg, sweep.price_key, sweep.price_values[sweep.i])
    /\ sim' = Simulation(cfg', sim.model)
    /\ run' = NewFrame(NoSeed)
    /\ sweep' = [sweep EXCEPT !.pc = "wait"]
    /\ UNCHANGED <<fvars, rng, mr, caller, mainf, api, workers>>

\* lines 24-31: read the returned dict; an exception ends the sweep
SweepCollect ==
    /\ sweep.pc = "wait"
    /\ Finished(run)
    /\ LET row == IF run.pc = "raised" THEN Raise(run.err)
                  ELSE SweepRow(Metrics(run), sweep.price_values[sweep.i])
       IN  sweep' = IF row.err # NoError
                    THEN [sweep EXCEPT !.pc = "raised", !.err = row.err]
                    ELSE [sweep EXCEPT !.pc = "loop", !.i = sweep.i + 1,
                                       !.results = Append(sweep.results, row.value)]
    /\ run' = IdleFrame
    /\ UNCHANGED <<fvars, cfg, sim, rng, mr, caller, mainf, api, workers>>

\* lines 34-37: the loop is over; max() of an empty list raises
SweepFinish ==
    /\ sweep.pc = "loop"
    /\ ~(sweep.i <= Len(sweep.price_values))
    /\ sweep' = IF Len(sweep.results) = 0
                THEN [sweep EXCEPT !.pc = "raised",
                         !.err = ValueError("max() arg is an empty sequence")]
                ELSE [sweep EXCEPT !.pc = "done"]
    /\ UNCHANGED <<fvars, cfg, sim, rng, run, mr, caller, mainf, api, workers>>

\* the sweep returns, or its exception reaches the caller
ReturnTestPriceRange ==
    /\ caller = "sweep"
    /\ sweep.pc \in {"done", "raised"}
    /\ sweep' = IdleSweep
    /\ caller' = "idle"
    /\ UNCHANGED <<fvars, cfg, sim, rng, run, mr, mainf, api, workers>>

\* the seeds a caller passes to run_once: the run indices of multi_run and
\* the seed of the documented example
Seeds == (0..(MaxRuns - 1)) \cup {42}

Next ==
    \/ \E seed \in Seeds \cup {NoSeed} : CallRunOnce(seed)
    \/ RunStart
    \/ RunLoop
    \/ RunRates
    \/ RunUpdate
    \/ RunRevenue
    \/ RunCost
    \/ RunFairness
    \/ ReturnRunOnce
    \/ \E runs \in (0 - 1)..MaxRuns : CallMultiRun(runs)
    \/ MultiRunCall
    \/ MultiRunCollect
    \/ MultiRunRaise
    \/ MultiRunReduce
    \/ ReturnMultiRun
    \/ MainCall
    \/ MainRead
    \/ MainExit
    \/ OtherDraw
    \/ \E m \in Models, params \in DirectParams : CallCalculateRevenue(m, params)
    \/ \E m \in Models, params \in DirectParams : CallEffectivePrice(m, params)
    \/ ReturnApi
    \/ \E price_values \in SweepGrids : CallTestPriceRange(price_values)
    \/ SweepOverride
    \/ SweepCollect
    \/ SweepFinish
    \/ ReturnTestPriceRange

Spec == Init /\ [][Next]_vars

\* a call of run_once in progress keeps executing: the program is sequential
\* and no step of the loop blocks
RunSteps ==
    \/ RunStart
    \/ RunLoop
    \/ RunRates
    \/ RunUpdate
    \/ RunRevenue
    \/ RunCost
    \/ RunFairness

FairSpec == Spec /\ WF_vars(RunSteps)

RngStates == 0..(RngMod - 1)

\* the model's required price key is in the configuration
PriceKeyPresent == effective_price_per_user(sim.model, cfg).err = NoError

\* ------------------------------------------------------------------ C1
\* C1: run_once terminates; when it returns it has made exactly
\* max(months, 0) loop iterations and both series have exactly that many
\* entries (none when months <= 0); months <= 0 is never the cause of an
\* error: a run whose model finds its price key always returns.
C1_RunOnceTerminates ==
    /\ [](run.pc = "done" =>
            /\ run.month - 1 = Max(sim.months, 0)
            /\ Len(run.profits) = Max(sim.months, 0)
            /\ Len(run.revenues) = Max(sim.months, 0))
    /\ []((Finished(run) /\ PriceKeyPresent) => run.pc = "done")
    /\ (Running(run) ~> Finished(run))

C1_Witness ==
    /\ run.pc = "done"
    /\ sim.months = MaxMonths
    /\ Len(run.profits) = MaxMonths
    /\ Len(run.revenues) = MaxMonths

\* ------------------------------------------------------------------ C2
\* the revenue the model can return for a user count, over the generator
\* states the call may find
RevenuesFor(users) ==
    {calculate_revenue(sim.model, users, cfg, r).value : r \in RngStates}

\* C2: when a month of run_once is complete, its growth, churn and cost
\* ratio are those of the user count the month began with, users is
\* max(users + users*growth - users*churn, 0) of that count, revenue is
\* the model's revenue for the updated count, cost = revenue * cost_ratio
\* and profit = revenue - cost are the last entries appended; users is
\* never negative.
C2_MonthOrder ==
    /\ run.users >= 0
    /\ (run.pc = "update" =>
            run.cost_ratio = dynamic_cost_ratio(run.users, run.base_cost_ratio))
    /\ (run.pc = "loop" /\ run.month > 1) =>
          /\ run.growth = dynamic_growth(run.month - 1, run.base_growth)
          /\ run.churn = dynamic_churn(run.price, run.base_churn, cfg)
          /\ run.cost_ratio =
                 dynamic_cost_ratio(run.users_prev, run.base_cost_ratio)
          /\ run.users =
                 Max(run.users_prev + MulFix(run.users_prev, run.growth)
                       - MulFix(run.users_prev, run.churn), 0)
          /\ run.revenue \in RevenuesFor(run.users)
          /\ run.cost = MulFix(run.revenue, run.cost_ratio)
          /\ run.profit = run.revenue - run.cost
          /\ Len(run.profits) = run.month - 1
          /\ Len(run.revenues) = run.month - 1
          /\ run.revenues[run.month - 1] = run.revenue
          /\ run.profits[run.month - 1] = run.profit

\* a completed month in which the clamp at zero acted
C2_Witness ==
    /\ run.pc = "loop"
    /\ run.month > 1
    /\ run.users_prev > 0
    /\ run.users_prev + MulFix(run.users_prev, run.growth)
          - MulFix(run.users_prev, run.churn) < 0
    /\ run.users = 0

\* ------------------------------------------------------------------ C3
\* the configuration of the documented end-to-end example
ExampleConfig ==
    ApplyDefaults([months |-> 3, initial_users |-> 1000 * Scale,
                   growth_rate |-> 800, churn_rate |-> 300,
                   monthly_price |-> 10 * Scale, cost_ratio |-> 6000])

\* the first month of the example run is complete
ExampleFirstMonth ==
    /\ cfg = ExampleConfig
    /\ sim.model = "FlatMonthly"
    /\ run.seed = 42
    /\ run.pc = "loop"
    /\ run.month = 2

Near(x, y) == Abs(x - y) <= Scale

\* C3 as stated: month 1 of the example has users 1050, revenue 10500,
\* cost 6300 and profit 4200.
C3_Original ==
    ExampleFirstMonth =>
        /\ Near(run.users, 1050 * Scale)
        /\ Near(run.revenue, 10500 * Scale)
        /\ Near(run.cost, 6300 * Scale)
        /\ Near(run.profit, 4200 * Scale)

\* C3 amended: month 1 of the example applies the growth decay with
\* exponent -0.04 * 1 and the scaled cost ratio 0.6 * (1 - 0.1 *
\* log10(1010) / 4): users = 1046.86, revenue = 10468.63, cost = 5809.41,
\* profit = 4659.22, each to within 1; churn is 0.03.
C3_ExampleFirstMonth ==
    ExampleFirstMonth =>
        /\ run.churn = 300
        /\ Near(run.users, 10468632)
        /\ Near(run.revenue, 104686316)
        /\ Near(run.cost, 58094119)
        /\ Near(run.profit, 46592196)

C3_Witness == ExampleFirstMonth /\ Len(run.profits) = 1

\* ------------------------------------------------------------------ C4
\* C4: the churn rate used in a month is base + 0.01 * (price / baseline
\* - 1) * 10 clamped at zero, hence never negative.
C4_ChurnClamped ==
    run.pc \in {"update", "revenue", "cost"} =>
        /\ run.churn >= 0
        /\ run.churn =
              Max(0, run.base_churn
                       + MulFix(100, DivFix(run.price, cfg["monthly_price"])
                                       - Scale) * 10)


\* ------------------------------------------------------------------ C5
\* the profit and revenue series of run_once(seed) started with the
\* generator in state r
Standalone(seed, r) == RunToEnd(NewFrame(seed), r, cfg, sim).frame

SameSeries(f, g) == f.profits = g.profits /\ f.revenues = g.revenues

\* C5: a run_once call with a seed returns the series that run_once with
\* that seed returns from every state the generator may have been left in;
\* for FlatMonthly it returns the series of every seed.
C5_Deterministic ==
    run.pc = "done" =>
        /\ run.seed # NoSeed =>
              \A r \in RngStates : SameSeries(run, Standalone(run.seed, r))
        /\ sim.model = "FlatMonthly" =>
              \A seed \in Seeds, r \in RngStates :
                  SameSeries(run, Standalone(seed, r))

\* a seeded run of the randomised model returned, the generator having been
\* left elsewhere than where the seed puts it
C5_Witness ==
    /\ run.pc = "done"
    /\ run.seed \in Seeds
    /\ sim.model = "UsageBased"
    /\ Len(run.profits) = MaxMonths
    /\ \E r \in RngStates :
          ~SameSeries(run, RunToEnd(NewFrame(NoSeed), r, cfg, sim).frame)

\* ------------------------------------------------------------------ C6
\* elementwise average over the standalone runs with seeds 0..n-1
StandaloneMean(n, r, j, series(_)) ==
    SeqSum([i \in 1..n |-> series(Standalone(i - 1, r))[j]]) \div n

\* C6: when multi_run(runs = N), N >= 1, returns, it has called run_once
\* with seeds 0, 1, ..., N-1 in that order and mean_profit and mean_revenue
\* are at each month the average over the N standalone run_once(seed = i)
\* series, whatever the generator state before multi_run; so two calls of
\* multi_run return the same means.
C6_MultiRunMean ==
    (mr.pc = "done" /\ mr.runs >= 1) =>
        /\ mr.calls = [i \in 1..mr.runs |-> i - 1]
        /\ Len(mr.stats.mean_profit) = Max(sim.months, 0)
        /\ Len(mr.stats.mean_revenue) = Max(sim.months, 0)
        /\ \A r \in RngStates, j \in 1..Max(sim.months, 0) :
              /\ mr.stats.mean_profit[j] =
                    StandaloneMean(mr.runs, r, j, LAMBDA f : f.profits)
              /\ mr.stats.mean_revenue[j] =
                    StandaloneMean(mr.runs, r, j, LAMBDA f : f.revenues)

\* multi_run over several runs of the randomised model whose series differ
C6_Witness ==
    /\ mr.pc = "done"
    /\ mr.runs = MaxRuns
    /\ sim.model = "UsageBased"
    /\ sim.months = MaxMonths
    /\ mr.all_profits[1] # mr.all_profits[2]
    /\ Len(mr.stats.mean_profit) = MaxMonths

\* ------------------------------------------------------------------ C7
\* C7: multi_run with runs <= 0 fails with InvalidRunCount and returns no
\* statistics.
C7_InvalidRunCount ==
    (mr.pc \in {"done", "raised"} /\ mr.runs <= 0) =>
        /\ mr.pc = "raised"
        /\ mr.err.kind = "InvalidRunCount"

\* ------------------------------------------------------------------ C8
\* the runs of multi_run on separate workers of one process: each worker
\* executes run_once(seed = its run index), the steps interleave, and
\* numpy's generator is the one module-level object they all draw from
ParModels == {"FlatMonthly", "UsageBased"}

InitPar ==
    /\ cfg \in {ApplyDefaults(p) : p \in JsonParams}
    /\ cfg["months"] >= 1
    /\ \E m \in ParModels : sim = Simulation(cfg, m)
    /\ rng = 0
    /\ run = IdleFrame
    /\ mr = IdleMulti
    /\ caller = "parallel"
    /\ mainf = IdleMain
    /\ api = NoCall
    /\ workers = [w \in 0..(NumWorkers - 1) |-> NewFrame(RunSeed(w))]
    /\ sweep = IdleSweep
    /\ ForecastIdle

WorkerStep(w) ==
    /\ caller = "parallel"
    /\ Running(workers[w])
    /\ LET n == RunStep(workers[w], rng, cfg, sim)
       IN  /\ workers' = [workers EXCEPT ![w] = n.frame]
           /\ rng' = n.rng
    /\ UNCHANGED <<fvars, sweep, cfg, sim, run, mr, caller, mainf, api>>

\* the join: results are reduced only after every run has completed
WorkersJoin ==
    /\ caller = "parallel"
    /\ \A w \in DOMAIN workers : workers[w].pc = "done"
    /\ mr' = [IdleMulti EXCEPT
                !.pc = "done",
                !.runs = NumWorkers,
                !.stats = Reduce([w \in 1..NumWorkers |-> workers[w - 1].profits],
                                 [w \in 1..NumWorkers |-> workers[w - 1].revenues],
                                 [w \in 1..NumWorkers |-> workers[w - 1].revenue_growth],
                                 [w \in 1..NumWorkers |-> workers[w - 1].satisfaction],
                                 [w \in 1..NumWorkers |-> workers[w - 1].fairness])]
    /\ caller' = "joined"
    /\ UNCHANGED <<fvars, sweep, cfg, sim, rng, run, mainf, api, workers>>

NextPar ==
    \/ \E w \in 0..(NumWorkers - 1) : WorkerStep(w)
    \/ WorkersJoin

SpecPar == InitPar /\ [][NextPar]_vars

\* C8: every run executed on a worker returns the series its seed gives
\* when the runs execute one after another.
C8_IsolatedStreams ==
    \A w \in DOMAIN workers :
        workers[w].pc = "done" =>
            SameSeries(workers[w], Standalone(RunSeed(w), 0))

\* ------------------------------------------------------------------ C9
\* the keys of a run result that main.py (lines 47-55), price_optimizer.py
\* (lines 24-25) and database.py (lines 46-48) read
ResultReads == {"profits", "revenues", "users", "final_users"}

\* C9: every key the callers read is in the dict run_once returns, and
\* main() never dies on a read of that dict.
C9_ResultExposesUsers ==
    /\ run.pc = "done" => ResultReads \subseteq DOMAIN Metrics(run)
    /\ mainf.pc = "raised" => mainf.err \notin {KeyError(k) : k \in ResultReads}

\* ----------------------------------------------------------------- C10
C10Models == {"FlatMonthly", "PremiumMonthly", "PremiumYearlySubscription"}

RequiredKey(m) ==
    IF m = "FlatMonthly" THEN "monthly_price" ELSE "premium_monthly_price"

\* a method of one of the three models was called without its required key
CalledWithoutRequiredKey ==
    /\ api.fn \in {"calculate_revenue", "effective_price_per_user"}
    /\ api.model \in C10Models
    /\ RequiredKey(api.model) \notin DOMAIN api.params

\* C10 as stated: the call fails with an error that names both the missing
\* key and the model.
C10_Original ==
    CalledWithoutRequiredKey =>
        /\ api.out.err # NoError
        /\ RequiredKey(api.model) \in Range(api.out.err.args)
        /\ api.model \in Range(api.out.err.args)

\* C10 amended: the call fails with a KeyError that names the missing key
\* (and nothing else: not the model); no revenue or price is returned.
C10_MissingKeyFails ==
    CalledWithoutRequiredKey =>
        /\ api.out.err = KeyError(RequiredKey(api.model))
        /\ api.out.value = 0

C10_Witness ==
    /\ CalledWithoutRequiredKey
    /\ api.fn = "effective_price_per_user"
    /\ api.model = "PremiumMonthly"
    /\ api.out.err.kind = "KeyError"

\* ------------------------------- the forecasting and optimisation modules
\* a program that owns one PriceElasticityModel and calls the forecasters,
\* the model and the optimiser in any order, one call at a time
InitOpt ==
    /\ cfg = ApplyDefaults([months |-> 1])
    /\ sim = Simulation(cfg, "FlatMonthly")
    /\ rng = 0
    /\ run = IdleFrame
    /\ mr = IdleMulti
    /\ caller = "forecasting"
    /\ mainf = IdleMain
    /\ api = NoCall
    /\ workers = IdleWorkers
    /\ sweep = IdleSweep
    /\ ForecastIdle

simvars == <<cfg, sim, rng, run, mr, caller, mainf, api, workers, sweep>>

NoCallInProgress == lf.pc = "idle" /\ opt.pc = "idle"

\* em.fit(prices, users)
FitCall(d) ==
    /\ NoCallInProgress
    /\ LET n == Fit(em, d[1], d[2])
       IN  /\ em' = n.model
           /\ hist' = (hist \/ n.out.err = NoError)
           /\ outcome' = [fn |-> "fit", args |-> d,
                          err |-> n.out.err, value |-> n.out.value]
    /\ UNCHANGED <<simvars, lf, opt>>

\* em.predict_users(current_price, new_price, current_users)
PredictCall(x) ==
    /\ NoCallInProgress
    /\ LET n == predict_users(em, x[1], x[2], x[3])
       IN  outcome' = [fn |-> "predict_users", args |-> x,
                       err |-> n.err, value |-> n.value]
    /\ UNCHANGED <<simvars, em, hist, lf, opt>>

\* forecast_next_active_users(users)
ForecastUsersCall(users) ==
    /\ NoCallInProgress
    /\ LET n == forecast_next_active_users(users)
       IN  outcome' = [fn |-> "forecast_next_active_users", args |-> users,
                       err |-> n.err, value |-> n.value]
    /\ UNCHANGED <<simvars, em, hist, lf, opt>>

\* evaluate_price_option(new_price, ..., elasticity_model=em, ...)
EvaluateCall(new_price, a) ==
    /\ NoCallInProgress
    /\ LET n == evaluate_price_option(new_price, a, em)
       IN  outcome' = [fn |-> "evaluate_price_option",
                       args |-> [new_price |-> new_price, a |-> a],
                       err |-> n.err, value |-> n.value]
    /\ UNCHANGED <<simvars, em, hist, lf, opt>>

\* forecast_server_load_one_step(U, r, coverage_prob), step by step
LoadCall(x) ==
    /\ NoCallInProgress
    /\ lf' = LoadStart(x[1], x[2], x[3])
    /\ outcome' = NoOutcome
    /\ UNCHANGED <<simvars, em, hist, opt>>

LoadSearch ==
    /\ lf.pc = "search"
    /\ lf' = SearchStep(lf)
    /\ UNCHANGED <<simvars, em, hist, opt, outcome>>

LoadReturn ==
    /\ lf.pc \in {"done", "raised"}
    /\ outcome' = [fn |-> "forecast_server_load_one_step",
                   args |-> <<lf.forecasted_users, lf.avg_requests_per_user,
                              lf.coverage_prob>>,
                   err |-> lf.err,
                   value |-> IF lf.pc = "done" THEN LoadResult(lf) ELSE 0]
    /\ lf' = IdleLoad
    /\ UNCHANGED <<simvars, em, hist, opt>>

\* optimize_price(price_grid, ..., elasticity_model=em, ...), step by step
OptCall(price_grid, a, objective, w) ==
    /\ NoCallInProgress
    /\ opt' = OptStart(price_grid, a, objective, w)
    /\ outcome' = NoOutcome
    /\ UNCHANGED <<simvars, em, hist, lf>>

OptEvaluate ==
    /\ opt.pc = "evaluate"
    /\ opt.i <= Len(opt.price_grid)
    /\ opt' = OptEvaluateStep(opt, em)
    /\ UNCHANGED <<simvars, em, hist, lf, outcome>>

OptScore ==
    /\ opt.pc = "evaluate"
    /\ ~(opt.i <= Len(opt.price_grid))
    /\ opt' = OptScoreStep(opt)
    /\ UNCHANGED <<simvars, em, hist, lf, outcome>>

\* optimize_price returns (best, evaluated), or its exception reaches the
\* caller
OptReturn ==
    /\ opt.pc \in {"done", "raised"}
    /\ opt' = IdleOpt
    /\ outcome' = NoOutcome
    /\ UNCHANGED <<simvars, em, hist, lf>>

NextOpt ==
    \/ \E d \in FitData : FitCall(d)
    \/ \E x \in PredictInputs : PredictCall(x)
    \/ \E users \in Histories : ForecastUsersCall(users)
    \/ \E new_price \in {8 * Scale, 15 * Scale}, a \in OptArgs :
           EvaluateCall(new_price, a)
    \/ \E price_grid \in PriceGrids, a \in OptArgs,
          objective \in ObjectiveChoices, w \in Weights :
           OptCall(price_grid, a, objective, w)
    \/ OptEvaluate
    \/ OptScore
    \/ OptReturn

SpecOpt == InitOpt /\ [][NextOpt]_vars

\* a program that calls the load forecaster only
NextLoad ==
    \/ \E x \in LoadInputs : LoadCall(x)
    \/ LoadSearch
    \/ LoadReturn

SpecLoad == InitOpt /\ [][NextLoad]_vars

\* ----------------------------------------------------------------- C11
\* C11: the capacity forecast_server_load_one_step returns is the minimal
\* one meeting the coverage: poisson_cdf(C, lam) >= coverage_prob, and
\* poisson_cdf(C - 1, lam) < coverage_prob when C > 0, for every coverage
\* probability, the search that reaches its upper bound included
C11_MinimalCapacity ==
    lf.pc = "done" =>
        /\ poisson_cdf(lf.C, lf.lam) >= lf.coverage_prob
        /\ lf.C > 0 => poisson_cdf(lf.C - 1, lf.lam) < lf.coverage_prob

\* ----------------------------------------------------------------- C12
\* the periods of a history in which the count rose, and in which it fell
UpPeriods(users) == {i \in 1..(Len(users) - 1) : users[i + 1] > users[i]}
DownPeriods(users) == {i \in 1..(Len(users) - 1) : users[i + 1] < users[i]}

\* the sum of the changes of the periods ps
RECURSIVE ChangeSum(_, _)
ChangeSum(users, ps) ==
    IF ps = {} THEN 0
    ELSE LET i == CHOOSE j \in ps : TRUE
         IN  users[i + 1] - users[i] + ChangeSum(users, ps \ {i})

\* the mean change of the periods ps, 0 if there are none
MeanChange(users, ps) ==
    IF ps = {} THEN 0 ELSE ChangeSum(users, ps) \div Cardinality(ps)

NotFitted == ValueError("Model not fitted yet. Call fit(prices, users) first.")

\* the step ends in the outcome of a fit call that failed
FitFailed == outcome'.fn = "fit" /\ outcome'.err # NoError

\* C13: in any sequence of fit and predict_users calls on one model,
\* predict_users fails with NotFitted exactly when no earlier fit on the
\* model succeeded, and a fit that fails leaves the model as it was: still
\* unable to predict if never fitted, with its previous elasticity otherwise
C13_FittedExactlyAfterFit ==
    /\ [](outcome.fn = "predict_users" => (outcome.err = NotFitted <=> ~hist))
    /\ [](em.none <=> ~hist)
    /\ [][FitFailed => em' = em]_vars

\* predict_users was refused on a model on which no fit has succeeded
C13_Witness ==
    /\ outcome.fn = "predict_users"
    /\ outcome.err = NotFitted
    /\ ~hist

\* ----------------------------------------------------------------- C14
\* the blend the claim states, from the trend forecast and the elasticity
\* prediction a result records
BlendOf(res, current_users) ==
    LET trend == res.diagnostics.trend.forecast_next
        predicted == res.diagnostics.elasticity.predicted_users
    IN  IF current_users <= 0 THEN Max(trend, 0)
        ELSE Max(MulFix(trend, Ratio(predicted, current_users)), 0)

NegativeUsersRejected == ValueError("forecasted_users cannot be negative.")

\* C14: the predicted_users of every evaluated price option is max(trend,
\* 0) when current_users <= 0 and max(trend * (elasticity prediction /
\* current_users), 0) otherwise, hence never negative, also for a negative
\* trend or a negative elasticity prediction, and the load forecaster never
\* rejects it as negative
C14_PredictedUsersFloored ==
    /\ outcome.fn = "evaluate_price_option" =>
          IF outcome.err = NoError
          THEN LET h == outcome.args.a.historical_users
               IN  /\ outcome.value.predicted_users
                          = BlendOf(outcome.value, h[Len(h)])
                   /\ outcome.value.predicted_users >= 0
          ELSE outcome.err # NegativeUsersRejected
    /\ \A i \in 1..Len(opt.evaluated) :
          LET h == opt.args.historical_users
          IN  /\ opt.evaluated[i].predicted_users
                     = BlendOf(opt.evaluated[i], h[Len(h)])
              /\ opt.evaluated[i].predicted_users >= 0
    /\ opt.err # NegativeUsersRejected

\* an option whose elasticity prediction is negative was evaluated
C14_Witness ==
    /\ outcome.fn = "evaluate_price_option"
    /\ outcome.err = NoError
    /\ outcome.value.diagnostics.elasticity.predicted_users < 0
    /\ outcome.value.diagnostics.trend.forecast_next > 0
    /\ outcome.value.predicted_users = 0

\* ----------------------------------------------------------------- C15
\* C15: for a non-empty grid the best result optimize_price returns has the
\* maximal score of the evaluated results -- maximal profit for objective
\* "profit", maximal predicted_users for "user_growth" -- and among results
\* of equal maximal score it is the first evaluated
C15_BestIsFirstMax ==
    opt.pc = "done" =>
        LET e == opt.evaluated
            b == opt.best
        IN  /\ Len(opt.price_grid) > 0
            /\ Len(e) = Len(opt.price_grid)
            /\ b \in 1..Len(e)
            /\ \A j \in 1..Len(e) :
                  /\ e[j].price = opt.price_grid[j]
                  /\ e[j].score <= e[b].score
                  /\ j < b => e[j].score < e[b].score
                  /\ opt.objective = "profit" => e[j].profit <= e[b].profit
                  /\ opt.objective = "user_growth" =>
                         e[j].predicted_users <= e[b].predicted_users

\* optimize_price chose between two results of equal maximal score
C15_Witness ==
    /\ opt.pc = "done"
    /\ \E j \in 1..Len(opt.evaluated) :
          /\ j > opt.best
          /\ opt.evaluated[j].score = opt.evaluated[opt.best].score
    /\ \E j \in 1..Len(opt.evaluated) :
          opt.evaluated[j].score < opt.evaluated[opt.best].score

\* ----------------------------------------------------------------- C16
\* C16: optimize_price fails with a ValidationError and returns no best
\* result whenever hybrid_weight_growth is outside [0, 1] (whatever the
\* objective, before any candidate is evaluated) or the objective is not
\* one of user_growth, profit, hybrid (for every price grid)
C16_InvalidArgumentsFail ==
    opt.pc # "idle" =>
        /\ (opt.hybrid_weight_growth < 0 \/ opt.hybrid_weight_growth > Scale) =>
              /\ opt.pc = "raised"
              /\ opt.err = ValueError("hybrid_weight_growth must be between 0 and 1.")
              /\ opt.evaluated = <<>>
              /\ opt.i = 0
        /\ opt.objective \notin {"user_growth", "profit", "hybrid"} =>
              /\ opt.pc \in {"evaluate", "raised"}
              /\ opt.best = 0
              /\ opt.pc = "raised" => opt.err.kind = "ValueError"

\* an unsupported objective was refused after the whole grid was evaluated
C16_Witness ==
    /\ opt.pc = "raised"
    /\ opt.objective \notin {"user_growth", "profit", "hybrid"}
    /\ opt.err = ValueError("Unsupported objective")
    /\ Len(opt.price_grid) > 0
    /\ Len(opt.evaluated) = Len(opt.price_grid)

\* ----------------------------------------------------------------- C17
\* optimize_price has computed its normalisation constants
Normalised ==
    \/ opt.pc = "done"
    \/ opt.pc = "raised" /\ opt.err = ValueError("Unsupported objective")

\* the largest predicted_users of the evaluated results
LargestPredicted ==
    CHOOSE v \in {opt.evaluated[i].predicted_users : i \in 1..Len(opt.evaluated)} :
        \A i \in 1..Len(opt.evaluated) : opt.evaluated[i].predicted_users <= v

\* C17 as stated: max_users is floored at 1 and profit_range at a small
\* epsilon: for every evaluated set max_users >= 1, also when the largest
\* predicted_users lies strictly between 0 and 1, and profit_range > 0
C17_Original ==
    Normalised => opt.max_users >= Scale /\ opt.profit_range > 0

\* C17 amended: max_users is the largest predicted_users when that is
\* positive (also when it is below 1) and 1 when it is zero, profit_range
\* is at least epsilon, so both are positive and the hybrid score never
\* divides by zero
C17_PositiveNormalisers ==
    /\ Normalised =>
          /\ opt.max_users = IF LargestPredicted = 0 THEN Scale
                             ELSE LargestPredicted
          /\ opt.max_users > 0
          /\ opt.profit_range >= Epsilon
          /\ opt.profit_range > 0
    /\ opt.err.kind # "ZeroDivisionError"

\* a hybrid score was computed with the largest predicted_users strictly
\* between 0 and 1
C17_Witness ==
    /\ opt.pc = "done"
    /\ opt.objective = "hybrid"
    /\ LargestPredicted > 0
    /\ LargestPredicted < Scale
    /\ opt.max_users = LargestPredicted

\* ----------------------------------------------------------------- C19
\* the errors of a history that is too short: of the trend forecaster
\* (forecaster_user.py line 13) and of the evaluation (optimization.py
\* line 68)
InsufficientData == ValueError("Need at least 2 data points to compute changes.")
EmptyHistory == ValueError("historical_users must contain at least one value.")

\* the error a history of fewer than two counts must end in
ShortHistoryError(h) == IF Len(h) = 0 THEN EmptyHistory ELSE InsufficientData

\* C19: evaluate_price_option, and optimize_price on a non-empty grid, fail
\* for a history of exactly one user count: the history passes the
\* non-empty check and the trend forecaster's failure for fewer than two
\* points propagates; for an empty history they fail with ValidationError
C19_ShortHistoryFails ==
    /\ (/\ outcome.fn = "evaluate_price_option"
        /\ Len(outcome.args.a.historical_users) < 2) =>
           outcome.err = ShortHistoryError(outcome.args.a.historical_users)
    /\ (/\ opt.pc # "idle"
        /\ Len(opt.args.historical_users) < 2
        /\ Len(opt.price_grid) > 0
        /\ opt.hybrid_weight_growth >= 0
        /\ opt.hybrid_weight_growth <= Scale) =>
           /\ opt.pc \in {"evaluate", "raised"}
           /\ opt.evaluated = <<>>
           /\ opt.pc = "evaluate" => opt.i = 1
           /\ opt.pc = "raised" =>
                  opt.err = ShortHistoryError(opt.args.historical_users)

\* an evaluation with a fitted model failed on a history of one count
C19_Witness ==
    /\ outcome.fn = "evaluate_price_option"
    /\ Len(outcome.args.a.historical_users) = 1
    /\ outcome.err = InsufficientData
    /\ ~em.none

\* ----------------------------------------------------------------- C18
\* C18: test_price_range evaluates each candidate on its own copy of the
\* configuration: when the sweep has ended the caller's Config holds what
\* it held when the sweep was called, the swept price key included
C18_ConfigPreserved ==
    sweep.pc \in {"done", "raised"} => cfg = sweep.before

\* ----------------------------------------------------------------- C20
\* the user count after m months when churn is the base churn: the monthly
\* price does not occur in it
RECURSIVE UsersAfter(_, _)
UsersAfter(config, m) ==
    IF m <= 0 THEN config["initial_users"]
    ELSE Bind(UsersAfter(config, m - 1), LAMBDA u :
             Max(u + MulFix(u, dynamic_growth(m, config["growth_rate"]))
                   - MulFix(u, config["churn_rate"]), 0))

\* the months whose user update the frame has made
MonthsDone(f) == IF f.pc \in {"revenue", "cost"} THEN f.month ELSE f.month - 1

\* the monthly prices a configuration is run at, the swept ones included
FlatPrices == {5 * Scale, 10 * Scale, 12 * Scale}

\* C20: for FlatMonthly the effective price is the configured monthly_price,
\* so dynamic_churn is the base churn in every month for every
\* monthly_price, the sequence of user counts is the same for every
\* monthly_price, the prices test_price_range tries included, and the
\* revenue is that user count times the price
C20_FlatUsersIgnorePrice ==
    (sim.model = "FlatMonthly" /\ run.pc \notin {"idle", "start", "raised"}) =>
        /\ run.price = cfg["monthly_price"]
        /\ run.pc \in {"update", "revenue", "cost"} => run.churn = cfg["churn_rate"]
        /\ run.users = UsersAfter(cfg, MonthsDone(run))
        /\ \A i \in 1..Len(run.revenues) :
              run.revenues[i] = MulFix(UsersAfter(cfg, i), cfg["monthly_price"])
        /\ run.pc = "done" =>
              \A p \in FlatPrices :
                  LET other == RunToEnd(NewFrame(NoSeed), rng,
                                   Override(cfg, "monthly_price", p), sim).frame
                  IN  other.users = run.users /\ other.churn = run.churn

\* a FlatMonthly run of several months made by the sweep at a price other
\* than the configured one
C20_Witness ==
    /\ caller = "sweep"
    /\ sim.model = "FlatMonthly"
    /\ run.pc = "done"
    /\ Len(run.revenues) >= 2
    /\ cfg["monthly_price"] # sweep.before["monthly_price"]
    /\ cfg["churn_rate"] > 0
    /\ run.users # cfg["initial_users"]

====
